---- MODULE Spec2Model ----
(***************************************************************************)
(* Model of src/main.py: the Gujarati news search script.  One run of the  *)
(* script after the "Search" button is pressed: empty-input check, tag     *)
(* extraction, tag translation, Pinecone search over namespaces x tags,    *)
(* date-sorted display, and the top-level exception handler.               *)
(*                                                                         *)
(* Text is a sequence of one-character strings.  A date string is a        *)
(* sequence of lexical tokens (numbers, words, punctuation).  A datetime   *)
(* is the tuple <<year, month, day, hour, minute, second, microsecond>>,   *)
(* compared field by field as Python compares naive datetimes.             *)
(***************************************************************************)
EXTENDS Integers, Sequences, FiniteSets, TLC

\* ------------------------------------------------------------------ bounds
\* most matches one index.query call returns (the code asks for top_k = 10)
MaxMatches == 1

\* ------------------------------------------------------------- text helpers
Space == " "
Comma == ","

\* str.strip(): drop leading and trailing whitespace
RECURSIVE LStrip(_)
LStrip(s) ==
    IF s # <<>> /\ Head(s) = Space THEN LStrip(Tail(s)) ELSE s

RECURSIVE RStrip(_)
RStrip(s) ==
    IF s # <<>> /\ s[Len(s)] = Space THEN RStrip(SubSeq(s, 1, Len(s) - 1)) ELSE s

Strip(s) == RStrip(LStrip(s))

\* str.split(","): the pieces between commas, empty pieces included
RECURSIVE Split(_)
Split(s) ==
    IF \A i \in 1..Len(s) : s[i] # Comma
    THEN <<s>>
    ELSE LET i == CHOOSE k \in 1..Len(s) :
                      s[k] = Comma /\ \A j \in 1..(k - 1) : s[j] # Comma
         IN  <<SubSeq(s, 1, i - 1)>> \o Split(SubSeq(s, i + 1, Len(s)))

\* [tag.strip() for tag in tags if tag.strip()]
RECURSIVE StripNonEmpty(_)
StripNonEmpty(pieces) ==
    IF pieces = <<>> THEN <<>>
    ELSE LET t == Strip(Head(pieces))
         IN  (IF t # <<>> THEN <<t>> ELSE <<>>) \o StripNonEmpty(Tail(pieces))

\* response.json()[0]["generated_text"].strip().split(",") and the filter
TagsOf(generated_text) == StripNonEmpty(Split(Strip(generated_text)))

\* ------------------------------------------------------------ date parsing
Num(n)  == [k |-> "num",  s |-> "", n |-> n]
Word(w) == [k |-> "word", s |-> w,  n |-> 0]
Lit(c)  == [k |-> "lit",  s |-> c,  n |-> 0]
Dir(d)  == [k |-> "dir",  s |-> d,  n |-> 0]

MonthNames ==
    <<"Jan", "Feb", "Mar", "Apr", "May", "Jun",
      "Jul", "Aug", "Sep", "Oct", "Nov", "Dec">>

MonthNum(w) == CHOOSE i \in 1..Len(MonthNames) : MonthNames[i] = w

\* the three formats of date_formats, in the order the code tries them
date_formats ==
    << <<Dir("%Y"), Lit("-"), Dir("%m"), Lit("-"), Dir("%d")>>,
       <<Dir("%b"), Lit(" "), Dir("%d"), Lit(", "), Dir("%Y"), Lit(" "),
         Dir("%I"), Lit(":"), Dir("%M"), Lit(" "), Dir("%p")>>,
       <<Dir("%Y"), Lit("-"), Dir("%m"), Lit("-"), Dir("%d"), Lit(" "),
         Dir("%H"), Lit(":"), Dir("%M"), Lit(":"), Dir("%S")>> >>

\* does one token of the input satisfy one element of the format
TokenMatches(tok, f) ==
    IF f.k = "lit" THEN tok = f
    ELSE CASE f.s = "%Y" -> tok.k = "num" /\ tok.n \in 1..9999
           [] f.s = "%m" -> tok.k = "num" /\ tok.n \in 1..12
           [] f.s = "%d" -> tok.k = "num" /\ tok.n \in 1..31
           [] f.s = "%H" -> tok.k = "num" /\ tok.n \in 0..23
           [] f.s = "%I" -> tok.k = "num" /\ tok.n \in 1..12
           [] f.s = "%M" -> tok.k = "num" /\ tok.n \in 0..59
           [] f.s = "%S" -> tok.k = "num" /\ tok.n \in 0..61
           [] f.s = "%b" -> tok.k = "word" /\ \E i \in 1..Len(MonthNames) : MonthNames[i] = tok.s
           [] f.s = "%p" -> tok.k = "word" /\ tok.s \in {"am", "pm"}
           [] OTHER      -> FALSE

HasDir(fmt, d) == \E i \in 1..Len(fmt) : fmt[i] = Dir(d)
TokenAt(s, fmt, d) == s[CHOOSE i \in 1..Len(fmt) : fmt[i] = Dir(d)]
NumField(s, fmt, d, default) ==
    IF HasDir(fmt, d) THEN TokenAt(s, fmt, d).n ELSE default

\* the marker for strptime raising ValueError
ValueError == <<>>

\* datetime.strptime(date_str, fmt): the datetime, or ValueError
Strptime(s, fmt) ==
    IF Len(s) = Len(fmt) /\ \A i \in 1..Len(s) : TokenMatches(s[i], fmt[i])
    THEN LET month == IF HasDir(fmt, "%b") THEN MonthNum(TokenAt(s, fmt, "%b").s)
                      ELSE NumField(s, fmt, "%m", 1)
             hour  == IF HasDir(fmt, "%I")
                      THEN (TokenAt(s, fmt, "%I").n % 12)
                           + (IF TokenAt(s, fmt, "%p").s = "pm" THEN 12 ELSE 0)
                      ELSE NumField(s, fmt, "%H", 0)
         IN  <<NumField(s, fmt, "%Y", 1900), month, NumField(s, fmt, "%d", 1),
               hour, NumField(s, fmt, "%M", 0), NumField(s, fmt, "%S", 0), 0>>
    ELSE ValueError

\* comparison of two datetimes, field by field
RECURSIVE DtLess(_, _)
DtLess(a, b) ==
    /\ a # <<>>
    /\ b # <<>>
    /\ \/ Head(a) < Head(b)
       \/ Head(a) = Head(b) /\ DtLess(Tail(a), Tail(b))

DtGeq(a, b) == ~DtLess(a, b)

\* datetime.now() when the wall clock has advanced by clk ticks since the run began
Now(clk) == <<2026, 11, 4, 12, 0, 0, clk>>

\* a metadata value: a string (token sequence) or a number
StrVal(toks) == [type |-> "str", s |-> toks, n |-> 0]
IntVal(n)    == [type |-> "int", s |-> <<>>, n |-> n]

\* Python truthiness of a metadata value
Truthy(v) == IF v.type = "str" THEN v.s # <<>> ELSE v.n # 0

\* what parse_date returns when no format applies (or the input is empty)
MinFallback(clk) == <<1, 1, 1, 0, 0, 0, 0>>
Fallback(clk) == Now(clk)

\* first format of date_formats, from position i on, that parses s
RECURSIVE TryFormats(_, _)
TryFormats(s, i) ==
    IF i > Len(date_formats) THEN ValueError
    ELSE LET parsed == Strptime(s, date_formats[i])
         IN  IF parsed # ValueError THEN parsed ELSE TryFormats(s, i + 1)

\* parse_date(date_str) called when the clock reads clk.
\* dt: the returned datetime; exc: the exception that escapes, "" when none;
\* now: whether datetime.now() was returned; warned: whether st.warning was shown
parse_date(date_str, clk) ==
    IF ~Truthy(date_str)
    THEN [dt |-> Fallback(clk), exc |-> "", now |-> TRUE, warned |-> FALSE]
    ELSE IF date_str.type # "str"
         THEN [dt |-> ValueError, exc |-> "TypeError", now |-> FALSE, warned |-> FALSE]
         ELSE LET parsed == TryFormats(date_str.s, 1)
              IN  IF parsed # ValueError
                  THEN [dt |-> parsed, exc |-> "", now |-> FALSE, warned |-> FALSE]
                  ELSE [dt |-> Fallback(clk), exc |-> "", now |-> TRUE, warned |-> TRUE]


\* ------------------------------------------------------------ input domains
\* what the user may have typed: nothing, a blank, or a word
Queries == {<<>>, <<Space>>, <<"q">>}

\* what the completion model may generate: "", " ", ",", "a", " a, ", "a,b"
\* and "a ,, b"
GeneratedTexts ==
    { <<>>, <<Space>>, <<Comma>>, <<"a">>,
      <<Space, "a", Comma, Space>>,
      <<"a", Comma, "b">>,
      <<"a", Space, Comma, Comma, Space, "b">> }

\* what the translator returns for a tag when it succeeds: the text in the
\* other script, letter by letter
GuLetter(c) == CASE c = "a" -> "k" [] c = "b" -> "m" [] OTHER -> c
Translate(tag) == [i \in 1..Len(tag) |-> GuLetter(tag[i])]

\* the list pc.list_indexes() returned at start-up
IndexLists == {<<>>, <<"news">>}

\* a match: its metadata text, and its metadata date when the key is present
Match(text, has_date, date) == [text |-> text, has_date |-> has_date, date |-> date]

\* matches the content store may hold
Matches ==
    { Match("t1", TRUE, StrVal(<<Num(2025), Lit("-"), Num(2), Lit("-"), Num(23), Lit(" "),
                                 Num(9), Lit(":"), Num(15), Lit(":"), Num(0)>>)),
      Match("t1", TRUE, StrVal(<<Word("Feb"), Lit(" "), Num(22), Lit(", "), Num(2025),
                                 Lit(" "), Num(5), Lit(":"), Num(46), Lit(" "), Word("pm")>>)),
      Match("t2", FALSE, StrVal(<<>>)),
      Match("t2", TRUE, StrVal(<<>>)),
      Match("t3", TRUE, StrVal(<<Num(22), Lit("/"), Num(2), Lit("/"), Num(2025)>>)),
      Match("t3", TRUE, IntVal(20250223)),
      Match("t4", TRUE, StrVal(<<Num(2031), Lit("-"), Num(1), Lit("-"), Num(1)>>)) }

RECURSIVE SeqsUpTo(_, _)
SeqsUpTo(S, n) ==
    IF n = 0 THEN {<<>>}
    ELSE LET shorter == SeqsUpTo(S, n - 1)
         IN  shorter \cup {Append(s, x) : s \in shorter, x \in S}

\* what one index.query call may return
QueryReturns == SeqsUpTo(Matches, MaxMatches)

\* outcomes of the completion request
Responses ==
    {[kind |-> k, text |-> <<>>] : k \in {"timeout", "request_exception", "bad_body"}}
        \cup {[kind |-> "ok", text |-> t] : t \in GeneratedTexts}

\* ------------------------------------------------------------------- state
VARIABLES
    pc,               \* position of the script
    user_input,       \* st.text_input value
    indexes,          \* module-level indexes
    tags,             \* extracted tags
    ti,               \* position of the translation loop in tags
    translated_tags,
    all_results,
    ns,               \* position of the namespace loop
    qi,               \* position of the tag loop inside the namespace
    sorted_results,   \* the list the display loop renders
    sort_keys,        \* the key parse_date produced for each rendered match
    outcome,          \* how the run ended
    msgs,             \* st.error / st.warning messages shown, in order
    completions,      \* number of requests.post calls made
    tlog,             \* translator.translate calls made, in order
    qlog,             \* index.query calls made, in order
    clock             \* ticks of the wall clock since the run began

vars == <<pc, user_input, indexes, tags, ti, translated_tags, all_results, ns, qi,
          sorted_results, sort_keys, outcome, msgs, completions, tlog, qlog, clock>>

namespaces == <<"sandesh">>

\* exception classes that derive from Exception; st.stop() raises
\* StopException, which derives from BaseException
ExceptionClasses ==
    {"Timeout", "RequestException", "KeyError", "TypeError", "PineconeException",
     "TranslateError"}

\* a narrower handler
CaughtNarrow(exc) == exc \in {"Timeout", "RequestException"}
\* `except Exception as e` at the end of the button handler
CaughtByHandler(exc) == exc \in ExceptionClasses

Error(topic)   == <<"error", topic>>
Warning(topic) == <<"warning", topic>>

\* an exception raised inside the try block of the button handler:
\* st.stop() ends the script with the condition just reported,
\* an Exception is reported by the handler, anything else escapes
Raise(exc, condition, shown) ==
    IF CaughtByHandler(exc)
    THEN /\ pc' = "done"
         /\ outcome' = "Error"
         /\ msgs' = (msgs \o shown) \o <<Error("an error occurred")>>
    ELSE IF exc = "StopException"
         THEN /\ pc' = "done"
              /\ outcome' = condition
              /\ msgs' = msgs \o shown
         ELSE /\ pc' = "crashed"
              /\ outcome' = "Crash"
              /\ msgs' = msgs \o shown

Init ==
    /\ pc = "idle"
    /\ user_input \in Queries
    /\ indexes \in IndexLists
    /\ tags = <<>>
    /\ ti = 1
    /\ translated_tags = <<>>
    /\ all_results = <<>>
    /\ ns = 1
    /\ qi = 1
    /\ sorted_results = <<>>
    /\ sort_keys = <<>>
    /\ outcome = "None"
    /\ msgs = <<>>
    /\ completions = 0
    /\ tlog = <<>>
    /\ qlog = <<>>
    /\ clock = 0

\* `if not user_input`
NoInput(q) == q = <<>>

\* the Search button is pressed
ClickSearch ==
    /\ pc = "idle"
    /\ IF NoInput(user_input)
       THEN /\ pc' = "done"
            /\ outcome' = "EmptyQuery"
            /\ msgs' = Append(msgs, Error("please enter a query"))
       ELSE /\ pc' = "extract"
            /\ UNCHANGED <<outcome, msgs>>
    /\ UNCHANGED <<user_input, indexes, tags, ti, translated_tags, all_results, ns, qi,
                   sorted_results, sort_keys, completions, tlog, qlog, clock>>

\* extract_tags(text) for one outcome of the request: the tags returned and
\* the message shown
extract_tags(resp) ==
    CASE resp.kind = "ok" ->
            [tags |-> TagsOf(resp.text), shown |-> <<>>]
      [] resp.kind = "timeout" ->
            [tags |-> <<>>, shown |-> <<Error("hugging face timed out")>>]
      [] resp.kind = "request_exception" ->
            [tags |-> <<>>, shown |-> <<Error("hugging face api")>>]
      [] OTHER ->
            [tags |-> <<>>, shown |-> <<Error("extracting tags")>>]

\* `if not tags`
SkipNoTags(t) == FALSE
NoTags(t) == t = <<>>

\* Step 1: extract tags
ExtractTags ==
    /\ pc = "extract"
    /\ \E resp \in Responses :
         LET r == extract_tags(resp)
         IN  /\ completions' = completions + 1
             /\ tags' = r.tags
             /\ IF NoTags(r.tags)
                THEN Raise("StopException", "ExtractionFailed",
                           r.shown \o <<Warning("no tags were extracted")>>)
                ELSE /\ pc' = "translate"
                     /\ msgs' = msgs \o r.shown
                     /\ UNCHANGED outcome
    /\ ti' = 1
    /\ translated_tags' = <<>>
    /\ UNCHANGED <<user_input, indexes, all_results, ns, qi, sorted_results, sort_keys,
                   tlog, qlog, clock>>

\* translated_tags.append(translated)
Prepend(list, x) == <<x>> \o list
AppendTranslated(list, x) == Append(list, x)

\* Step 2, loop body: translate one tag
TranslateTag ==
    /\ pc = "translate"
    /\ ti <= Len(tags)
    /\ \/ /\ translated_tags' = AppendTranslated(translated_tags, Translate(tags[ti]))
          /\ tlog' = Append(tlog, [tag |-> tags[ti], ok |-> TRUE, out |-> Translate(tags[ti])])
          /\ UNCHANGED msgs
       \/ /\ tlog' = Append(tlog, [tag |-> tags[ti], ok |-> FALSE, out |-> <<>>])
          /\ msgs' = Append(msgs, Warning("could not translate tag"))
          /\ UNCHANGED translated_tags
    /\ ti' = ti + 1
    /\ UNCHANGED <<pc, user_input, indexes, tags, all_results, ns, qi, sorted_results,
                   sort_keys, outcome, completions, qlog, clock>>

\* `if not translated_tags`
SkipNoTranslated(t) == FALSE
NoTranslated(t) == t = <<>>

\* Step 2, after the loop
TranslateDone ==
    /\ pc = "translate"
    /\ ti > Len(tags)
    /\ IF NoTranslated(translated_tags)
       THEN Raise("StopException", "TranslationFailed",
                  <<Warning("no tags could be translated")>>)
       ELSE /\ pc' = "index"
            /\ UNCHANGED <<outcome, msgs>>
    /\ UNCHANGED <<user_input, indexes, tags, ti, translated_tags, all_results, ns, qi,
                   sorted_results, sort_keys, completions, tlog, qlog, clock>>

\* where the two nested loops stand after the inner loop moved on to tag q
\* of namespace n: past the last tag the outer loop takes the next namespace
LoopPos(n, q) ==
    IF n <= Len(namespaces) /\ q > Len(translated_tags)
    THEN [ns |-> n + 1, qi |-> 1]
    ELSE [ns |-> n, qi |-> q]

\* the position of the script once the loops stand at namespace n:
\* past the last namespace Step 4 begins
AfterLoops(n) ==
    IF n > Len(namespaces) \/ translated_tags = <<>> THEN "display" ELSE "search"

\* Step 3, before the loops: all_results = [], pick the index, pc.Index(index_name)
GetIndex ==
    /\ pc = "index"
    /\ all_results' = <<>>
    /\ IF indexes = <<>>
       THEN Raise("StopException", "NoContentStoreAvailable",
                  <<Error("no pinecone indexes available")>>)
       ELSE \/ /\ pc' = AfterLoops(1)
               /\ UNCHANGED <<outcome, msgs>>
            \/ Raise("PineconeException", "None", <<>>)
    /\ ns' = 1
    /\ qi' = 1
    /\ UNCHANGED <<user_input, indexes, tags, ti, translated_tags, sorted_results,
                   sort_keys, completions, tlog, qlog, clock>>

\* all_results.extend(query_response.matches)
Replace(list, more) == more
Extend(list, more) == list \o more

\* Step 3, inner loop body: one index.query call, and the loops' move to the
\* next call.  An exception leaves the inner loop: the try statement encloses
\* the whole `for tag` loop, so the namespace's remaining tags are not queried.
Query ==
    /\ pc = "search"
    /\ ns <= Len(namespaces)
    /\ qi <= Len(translated_tags)
    /\ \/ \E ms \in QueryReturns :
            /\ all_results' = Extend(all_results, ms)
            /\ qlog' = Append(qlog, [ns |-> namespaces[ns], tag |-> translated_tags[qi],
                                     ok |-> TRUE, out |-> ms])
            /\ ns' = LoopPos(ns, qi + 1).ns
            /\ qi' = LoopPos(ns, qi + 1).qi
            /\ UNCHANGED msgs
       \/ /\ qlog' = Append(qlog, [ns |-> namespaces[ns], tag |-> translated_tags[qi],
                                   ok |-> FALSE, out |-> <<>>])
          /\ msgs' = Append(msgs, Warning("error searching in namespace"))
          /\ ns' = ns + 1
          /\ qi' = 1
          /\ UNCHANGED all_results
    /\ pc' = AfterLoops(ns')
    /\ UNCHANGED <<user_input, indexes, tags, ti, translated_tags, sorted_results,
                   sort_keys, outcome, completions, tlog, clock>>

\* x.metadata.get("date", "1900-01-01")
DateArg(m) ==
    IF m.has_date THEN m.date
    ELSE StrVal(<<Num(1900), Lit("-"), Num(1), Lit("-"), Num(1)>>)

\* with reverse=False the smaller key comes first
BeforeAscending(a, b) == DtLess(a, b)
\* sorted(..., reverse=True): does key a come strictly before key b
Before(a, b) == DtLess(b, a)

\* the place item i takes in the sorted list: behind the items whose key
\* comes before its own, and behind the earlier items of equal rank, since
\* sorted() is stable (with reverse=True too)
Rank(keys, i) ==
    1 + Cardinality({j \in 1..Len(keys) :
            \/ Before(keys[j], keys[i])
            \/ j < i /\ ~Before(keys[i], keys[j])})

\* the order sorted() gives to the items: SortOrder(keys)[r] is the input
\* position of the item at place r
SortOrder(keys) ==
    [r \in 1..Len(keys) |-> CHOOSE i \in 1..Len(keys) : Rank(keys, i) = r]

\* does parse_date read the wall clock for this item
ReadsClock(m) == parse_date(DateArg(m), 0).now

\* the results of parse_date for items i.., computed in list order; the wall
\* clock reads clk before, and advances by ticks[j] before item j reads it
RECURSIVE KeyResults(_, _, _, _)
KeyResults(items, ticks, i, clk) ==
    IF i > Len(items) THEN <<>>
    ELSE LET c == IF i \in DOMAIN ticks THEN clk + ticks[i] ELSE clk
         IN  <<[res |-> parse_date(DateArg(items[i]), c), clk |-> c]>>
                 \o KeyResults(items, ticks, i + 1, c)

\* st.warning calls made by parse_date for items 1..n
RECURSIVE DateWarnings(_, _)
DateWarnings(res, n) ==
    IF n = 0 THEN <<>>
    ELSE DateWarnings(res, n - 1)
           \o (IF res[n].res.warned THEN <<Warning("could not parse date")>> ELSE <<>>)

\* Step 4: display results
Display ==
    /\ pc = "display"
    /\ IF all_results = <<>>
       THEN /\ pc' = "done"
            /\ outcome' = "NoMatches"
            /\ msgs' = Append(msgs, Warning("no articles found"))
            /\ UNCHANGED <<sorted_results, sort_keys, clock>>
       ELSE \E ticks \in [{i \in 1..Len(all_results) : ReadsClock(all_results[i])} -> 0..1] :
            \E res \in {KeyResults(all_results, ticks, 1, clock)} :
              LET n      == Len(all_results)
                  failed == {i \in 1..n : res[i].res.exc # ""}
              IN  IF failed # {}
                  THEN LET f == CHOOSE i \in failed : \A j \in failed : i <= j
                       IN  /\ Raise(res[f].res.exc, "None", DateWarnings(res, f - 1))
                           /\ clock' = res[f].clk
                           /\ UNCHANGED <<sorted_results, sort_keys>>
                  ELSE \E order \in {SortOrder([i \in 1..n |-> res[i].res.dt])} :
                           /\ sorted_results' = [i \in 1..n |-> all_results[order[i]]]
                           /\ sort_keys' = [i \in 1..n |-> res[order[i]].res.dt]
                           /\ clock' = res[n].clk
                           /\ pc' = "done"
                           /\ outcome' = "Results"
                           /\ msgs' = msgs \o DateWarnings(res, n)
    /\ UNCHANGED <<user_input, indexes, tags, ti, translated_tags, all_results, ns, qi,
                   completions, tlog, qlog>>

Next ==
    \/ ClickSearch
    \/ ExtractTags
    \/ TranslateTag
    \/ TranslateDone
    \/ GetIndex
    \/ Query
    \/ Display

Spec == Init /\ [][Next]_vars

\* the script runs on one thread of control and every call it makes returns
\* or raises: a step that can be taken is taken
FairSpec == Spec /\ WF_vars(Next)


\* ------------------------------------------------------------------ helpers
Count(seq, x) == Cardinality({i \in 1..Len(seq) : seq[i] = x})

IsPermutation(a, b) ==
    /\ Len(a) = Len(b)
    /\ \A i \in 1..Len(a) : Count(a, a[i]) = Count(b, a[i])

RECURSIVE Successes(_)
Successes(log) ==
    IF log = <<>> THEN <<>>
    ELSE (IF Head(log).ok THEN <<Head(log).out>> ELSE <<>>) \o Successes(Tail(log))

RECURSIVE Returned(_)
Returned(log) ==
    IF log = <<>> THEN <<>> ELSE Head(log).out \o Returned(Tail(log))

Failures(log) == Cardinality({k \in 1..Len(log) : ~log[k].ok})

IsBlank(q) == \A i \in 1..Len(q) : q[i] = Space

\* the match's date is a string that one of the three formats parses
Parses(m) == m.has_date /\ m.date.type = "str" /\ TryFormats(m.date.s, 1) # ValueError

\* the match's date is an empty string or a string that no format parses
Unparseable(m) == m.has_date /\ m.date.type = "str" /\ TryFormats(m.date.s, 1) = ValueError

\* the match's date parses to an instant before the run began
ParsesPast(m) == Parses(m) /\ DtLess(TryFormats(m.date.s, 1), Now(0))

\* the Date Normalizer of the specification applied to a match's date
\* metadata when the clock reads clk: an absent date gives the current instant
Normalize(m, clk) == IF m.has_date THEN parse_date(m.date, clk).dt ELSE Now(clk)

TranslationOver == pc \notin {"idle", "extract", "translate"}

\* -------------------------------------------------------------------- claims

\* C1: the rendered result list holds no two matches with the same text.
C1_NoDuplicateText ==
    outcome = "Results" =>
        \A i, j \in 1..Len(sorted_results) :
            i < j => sorted_results[i].text # sorted_results[j].text

\* C2: a failing query is isolated: when the search ends, one query has been
\* issued for every (namespace, translated tag) pair, in namespace-major
\* order, and each failure was met with a warning.
C2_EveryPairQueried ==
    pc = "display" =>
        LET T == Len(translated_tags)
        IN  /\ Len(qlog) = Len(namespaces) * T
            /\ \A k \in 1..Len(qlog) :
                 /\ ((k - 1) \div T) + 1 \in 1..Len(namespaces)
                 /\ qlog[k].ns = namespaces[((k - 1) \div T) + 1]
                 /\ qlog[k].tag = translated_tags[((k - 1) % T) + 1]
            /\ Count(msgs, Warning("error searching in namespace")) = Failures(qlog)

\* C3: an empty or whitespace-only query is never processed: no collaborator
\* is called and the run ends in EmptyQuery.
C3_BlankQueryRejected ==
    IsBlank(user_input) =>
        /\ completions = 0
        /\ tlog = <<>>
        /\ qlog = <<>>
        /\ pc = "done" => outcome = "EmptyQuery"

C6_TranslationIsolated ==
    /\ Len(tlog) = (IF pc = "translate" THEN ti - 1
                    ELSE IF TranslationOver THEN Len(tags) ELSE 0)
    /\ \A k \in 1..Len(tlog) : tlog[k].tag = tags[k]
    /\ translated_tags = Successes(tlog)
    /\ Len(translated_tags) <= Len(tags)
    /\ Count(msgs, Warning("could not translate tag")) = Failures(tlog)
    /\ TranslationOver /\ translated_tags # <<>> =>
          /\ pc \in {"index", "search", "display", "done"}
          /\ outcome \in {"None", "NoContentStoreAvailable", "NoMatches", "Results", "Error"}
    /\ \A k \in 1..Len(qlog) :
          \E t \in 1..Len(translated_tags) : qlog[k].tag = translated_tags[t]

C6_Witness ==
    /\ Len(tlog) = 2
    /\ ~tlog[1].ok
    /\ tlog[2].ok
    /\ Len(translated_tags) = 1
    /\ qlog # <<>>

\* C7: when extraction yields no tags the run stops in ExtractionFailed with
\* no translation and no query; one completion call is made per query.
C7_ExtractionFailedStops ==
    /\ completions <= 1
    /\ pc \notin {"idle", "extract"} /\ outcome # "EmptyQuery" => completions = 1
    /\ completions = 1 /\ tags = <<>> =>
          /\ pc = "done"
          /\ outcome = "ExtractionFailed"
          /\ tlog = <<>>
          /\ qlog = <<>>
          /\ msgs[Len(msgs)] = Warning("no tags were extracted")

C7_Witness ==
    /\ outcome = "ExtractionFailed"
    /\ completions = 1
    /\ msgs = <<Error("hugging face timed out"), Warning("no tags were extracted")>>

\* C8: when every translation fails the run stops in TranslationFailed
\* and no query is issued.
C8_AllTranslationsFailStop ==
    /\ TranslationOver /\ tags # <<>> /\ translated_tags = <<>> =>
          /\ pc = "done"
          /\ outcome = "TranslationFailed"
          /\ qlog = <<>>
          /\ msgs[Len(msgs)] = Warning("no tags could be translated")
    /\ outcome = "TranslationFailed" => Failures(tlog) = Len(tags)

C8_Witness ==
    /\ outcome = "TranslationFailed"
    /\ Len(tlog) = 2
    /\ Failures(tlog) = 2

ReportedOutcomes ==
    {"EmptyQuery", "ExtractionFailed", "TranslationFailed", "NoContentStoreAvailable",
     "NoMatches", "Results", "Error"}

\* C9: every run ends in a reported outcome and never crashes: a fault is
\* absorbed by its stage or reported by the top-level handler.
C9_RunEndsReported ==
    /\ [](pc # "crashed")
    /\ [](pc = "done" =>
            /\ outcome \in ReportedOutcomes
            /\ outcome = "Error" => msgs[Len(msgs)] = Error("an error occurred"))
    /\ <>(pc = "done")

C9_Witness ==
    /\ pc = "done"
    /\ outcome = "Error"
    /\ all_results # <<>>
    /\ user_input # <<>>

\* C10 as claimed: the collected results are the matches of the successful
\* queries in call order, a later failure removes none, all of them are
\* shown, and NoMatches is reported only when no query returned a match.
C10_CollectedAllShown ==
    /\ all_results = Returned(qlog)
    /\ pc = "done" /\ all_results # <<>> => IsPermutation(sorted_results, all_results)
    /\ outcome = "NoMatches" => \A k \in 1..Len(qlog) : qlog[k].out = <<>>

\* C10 as amended: as claimed, except that the collected matches are shown
\* only if ranking them raises no fault: when a match carries a date that is
\* not a string the top-level error is reported and none is shown.
C10_CollectedShownUnlessFault ==
    /\ all_results = Returned(qlog)
    /\ pc = "done" /\ all_results # <<>> =>
          IF \E i \in 1..Len(all_results) : parse_date(DateArg(all_results[i]), 0).exc # ""
          THEN outcome = "Error" /\ sorted_results = <<>>
          ELSE outcome = "Results" /\ IsPermutation(sorted_results, all_results)
    /\ outcome = "NoMatches" => \A k \in 1..Len(qlog) : qlog[k].out = <<>>

C10_Witness ==
    /\ outcome = "Results"
    /\ Len(qlog) = 2
    /\ qlog[1].ok
    /\ ~qlog[2].ok
    /\ all_results # <<>>
    /\ sorted_results = all_results

====
